---------------------------- MODULE Spec2Model ----------------------------
(***************************************************************************)
(* Circleguard.run (src/circleguard/circleguard.py) as a state machine.    *)
(*                                                                         *)
(* run is a Python generator function.  Calling it builds a generator and  *)
(* executes nothing; every next() on the generator executes the body from  *)
(* the point where it is suspended up to the next yield, the return or an  *)
(* exception that leaves the body; close() on a suspended generator ends   *)
(* it at the yield without executing any further statement, because the    *)
(* body has no try/finally and no with block.                              *)
(*                                                                         *)
(* The body is translated statement by statement (L95 .. L117, named by    *)
(* source line); Resume executes statements until the generator suspends   *)
(* or ends, and the Pull action is one whole next() call.                  *)
(*                                                                         *)
(* Spec explores run on an instance built with the constructor's defaults  *)
(* for db_path and cache; SpecInstance explores every construction of the  *)
(* instance together with Circleguard.load and Circleguard.set_options.    *)
(***************************************************************************)
EXTENDS Integers, Sequences, FiniteSets, TLC

\* ------------------------------------------------------------- bounds --
MaxReplays  == 2    \* replays in the Check's first replay set
MaxReplays2 == 1    \* replays in the Check's second replay set
MaxMap      == 2    \* distinct beatmap ids
MaxRuns     == 2    \* run(check) calls made on the instance
MaxStops    == 2    \* StopIteration signals a consumer looks at per stream

Maps == 1..MaxMap
Runs == 1..MaxRuns

\* Python's None, as the value of an attribute or local that holds a handle
None == 0

\* the members of the Detect flag
STEAL      == "STEAL"
RELAX      == "RELAX"
CORRECTION == "CORRECTION"
Detect     == {STEAL, RELAX, CORRECTION}

VARIABLES
    cg,           \* the Circleguard instance: its attributes
    cacher,       \* the Cacher objects constructed so far: should_cache
    loadCalls,    \* the calls made of the Check's load method
    options,      \* the latest call of Circleguard.set_options
    check,        \* the Check: detect, replays, replays2, loaded
    unknownMaps,  \* map ids the beatmap library cannot obtain
    handles,      \* every Library handle created so far: owner, open
    gens,         \* the generator returned by each run(check) call
    out           \* what each consumer received from its next() calls

vars == <<cg, cacher, loadCalls, options, check, unknownMaps, handles, gens,
          out>>

\* ------------------------------------------------------------ helpers --
\* one entry of a run's log of the work done on its behalf
Ev(e, a, b) == [ev |-> e, a |-> a, b |-> b]

\* one item a consumer receives from next(): a Result or a raised signal
Item(k, a, b) == [kind |-> k, a |-> a, b |-> b]

StopIteration == Item("StopIteration", 0, 0)

\* every sequence over S of length at most n
SeqUpTo(S, n) == UNION {[1..k -> S] : k \in 0..n}

\* number of entries of s that satisfy Test
Count(s, Test(_)) == Cardinality({k \in 1..Len(s) : Test(s[k])})

\* ------------------------------------------------- Check (loadable) ----
\* c.all_replays(): the replays of the first replay set, in order
all_replays(c) ==
    [k \in 1..Len(c.replays) |-> [id |-> k, map_id |-> c.replays[k]]]

\* c.all_replays2(): the replays of the second replay set, in order
all_replays2(c) ==
    [k \in 1..Len(c.replays2) |->
        [id |-> Len(c.replays) + k, map_id |-> c.replays2[k]]]

\* c.load(loader): materialises the replays unless already loaded (the
\* loaded flag makes a repeated load a no-op); ok is the loader's outcome
CheckLoad(c, ok) ==
    IF c.loaded THEN [check |-> c, raised |-> FALSE]
    ELSE IF ok THEN [check |-> [c EXCEPT !.loaded = TRUE], raised |-> FALSE]
    ELSE [check |-> c, raised |-> TRUE]

\* ---------------------------------------------------------- Comparer ---
RECURSIVE Combinations(_)
\* every unordered pair of s once, in stable iteration order
Combinations(s) ==
    IF Len(s) < 2 THEN <<>>
    ELSE [k \in 1..(Len(s) - 1) |-> <<Head(s).id, s[k + 1].id>>]
         \o Combinations(Tail(s))

\* every (first set, second set) pair once
Product(s1, s2) ==
    [p \in 1..(Len(s1) * Len(s2)) |->
        <<s1[((p - 1) \div Len(s2)) + 1].id, s2[((p - 1) % Len(s2)) + 1].id>>]

\* Comparer(thresh, replays1, replays2=...).compare(): the pairs it will
\* compare, one ComparisonResult each
ComparerPairs(replays1, replays2) ==
    IF Len(replays2) = 0 THEN Combinations(replays1)
    ELSE Product(replays1, replays2)

\* ------------------------------------------------------ Investigator ---
\* Investigator(replay, bm, thresh).investigate(): the results it yields,
\* one RelaxResult for the replay
InvestigatorResults(replay) == <<Item("relax", replay.id, 0)>>

\* ------------------------------------------------------------ Cacher ---
\* Cacher(cache, db_path): the new Cacher caches iff cache
CacherInit(cache) == [should_cache |-> cache]

\* ------------------------------------------------------- Circleguard ---
\* Circleguard.__init__: self.cache is the cache argument; a Cacher is
\* constructed only when db_path is given; with slider_dir None a
\* temporary library is created and closed at once and self.library is
\* None, otherwise self.library is a Library that stays open
CircleguardInit(db_path, slider_dir, cache) ==
    LET cs == IF db_path = None THEN <<>> ELSE <<CacherInit(cache)>>
        a  == [loader |-> "Loader", cache |-> cache, cacher |-> Len(cs)]
    IN  IF slider_dir = None
        THEN [cg |-> [library |-> None, slider_dir |-> "TemporaryDirectory",
                      loader |-> a.loader, cache |-> a.cache,
                      cacher |-> a.cacher],
              cacher |-> cs,
              handles |-> <<[owner |-> 0, open |-> FALSE]>>]
        ELSE [cg |-> [library |-> 1, slider_dir |-> "given",
                      loader |-> a.loader, cache |-> a.cache,
                      cacher |-> a.cacher],
              cacher |-> cs,
              handles |-> <<[owner |-> 0, open |-> TRUE]>>]

\* a bool, or its absence, as it appears in an argument list
Arg(b) == IF b THEN "True" ELSE "False"
Absent == "absent"

\* one call of the Check's load method, with the arguments it was given
LoadCall(via, loader, cache) ==
    [via |-> via, loader |-> loader, cache |-> cache]

\* a generator that run(check) has not been called for yet
NoGen ==
    [pc |-> "none", pairs |-> <<>>, j |-> 0, library |-> None, i |-> 0,
     results |-> <<>>, n |-> 0,
     yielded |-> StopIteration, trace |-> <<>>, rerun |-> FALSE]

\* program points at which a generator is not executing
Suspended == {"y102", "y115"}
Terminal  == {"done", "raised", "closed"}

\* (variant) the relax block placed before the steal block
Blocks_relaxFirst == <<"l105", "l98">>

\* the detector blocks of the body, by the line of their if, in source order
Blocks == <<"l98", "l105">>

\* where control goes when the block that starts at l is skipped or finished
After(l) ==
    LET k == CHOOSE n \in 1..Len(Blocks) : Blocks[n] = l
    IN  IF k < Len(Blocks) THEN Blocks[k + 1] ELSE "l119"

Log(m, e, a, b) == [m EXCEPT !.g.trace = Append(@, Ev(e, a, b))]

Goto(m, l) == [m EXCEPT !.g.pc = l]

\* (variant) line 95 with the loader's failure swallowed
L95_failureIgnored(m, ok) ==
    LET res == CheckLoad(m.check, ok)
    IN  Goto(Log([m EXCEPT !.check = res.check], "load",
                 IF res.raised THEN 1 ELSE 0, 0), Blocks[1])

\* line 95: c.load(self.loader)
L95(m, ok) ==
    LET res == CheckLoad(m.check, ok)
        m1  == Log([m EXCEPT !.check = res.check,
                             !.loadCalls =
                                 @ \cup {LoadCall("run", m.cg.loader, Absent)}],
                   "load", IF res.raised THEN 1 ELSE 0, 0)
    IN  IF res.raised THEN Goto(m1, "raised") ELSE Goto(m1, Blocks[1])

\* (variant) line 98 without its test of the Detect flag
L98_always(m) == Goto(m, "l99")

\* line 98: if Detect.STEAL in d
L98(m) ==
    IF STEAL \in m.check.detect THEN Goto(m, "l99")
    ELSE Goto(m, After("l98"))

\* lines 99-101: the Comparer is constructed over both replay sets
L99(m) ==
    LET ps == ComparerPairs(all_replays(m.check), all_replays2(m.check))
    IN  Goto(Log([m EXCEPT !.g.pairs = ps, !.g.j = 0], "Comparer", 0, 0),
             "l102")

\* (variant) line 102 leaving the comparer before its last result
L102_lastDropped(m) ==
    IF m.g.j + 1 < Len(m.g.pairs)
    THEN LET p  == m.g.pairs[m.g.j + 1]
             m1 == Log(m, "compare", p[1], p[2])
             m2 == Log(m1, "yield_steal", p[1], p[2])
         IN  Goto([m2 EXCEPT !.g.j = @ + 1,
                             !.g.yielded = Item("steal", p[1], p[2])],
                  "y102")
    ELSE Goto(m, After("l98"))

\* line 102: yield from comparer.compare()
L102(m) ==
    IF m.g.j < Len(m.g.pairs)
    THEN LET p  == m.g.pairs[m.g.j + 1]
             m1 == Log(m, "compare", p[1], p[2])
             m2 == Log(m1, "yield_steal", p[1], p[2])
         IN  Goto([m2 EXCEPT !.g.j = @ + 1,
                             !.g.yielded = Item("steal", p[1], p[2])],
                  "y102")
    ELSE Goto(m, After("l98"))

\* (variant) line 105 without its test of the Detect flag
L105_always(m) == Goto(m, "l106")

\* line 105: if Detect.RELAX in d
L105(m) ==
    IF RELAX \in m.check.detect THEN Goto(m, "l106")
    ELSE Goto(m, After("l105"))

\* (variant) lines 106-110 keeping the connection in self.library
L106_keptOnSelf(m) ==
    IF m.cg.library = None
    THEN LET h  == Len(m.handles) + 1
             m1 == [m EXCEPT !.handles =
                        Append(@, [owner |-> m.r, open |-> TRUE]),
                             !.cg.library = h,
                             !.g.library = h, !.g.i = 1]
         IN  Goto(Log(m1, "Library", h, 0), "l112")
    ELSE Goto([m EXCEPT !.g.library = m.cg.library, !.g.i = 1], "l112")

\* lines 106-110: connect to the temporary library, or use self.library
L106(m) ==
    IF m.cg.library = None
    THEN LET h  == Len(m.handles) + 1
             m1 == [m EXCEPT !.handles =
                        Append(@, [owner |-> m.r, open |-> TRUE]),
                             !.g.library = h, !.g.i = 1]
         IN  Goto(Log(m1, "Library", h, 0), "l112")
    ELSE Goto([m EXCEPT !.g.library = m.cg.library, !.g.i = 1], "l112")

\* line 112: for replay in c.all_replays()
L112(m) ==
    IF m.g.i <= Len(all_replays(m.check))
    THEN Goto(m, "l113") ELSE Goto(m, "l117")

\* (variant) line 113 inside a try whose except skips the replay
L113_skipOnFailure(m) ==
    LET replay == all_replays(m.check)[m.g.i]
        m1     == Log(m, "lookup_by_id", replay.id, replay.map_id)
    IN  IF ~m.handles[m.g.library].open \/ replay.map_id \in m.unknownMaps
        THEN Goto([m1 EXCEPT !.g.i = @ + 1], "l112")
        ELSE Goto(m1, "l114")

\* (variant) line 113 behind a per-run cache keyed by map id
L113_cachedPerMap(m) ==
    LET replay == all_replays(m.check)[m.g.i]
        m1     == Log(m, "lookup_by_id", replay.id, replay.map_id)
    IN  IF \E n \in 1..Len(m.g.trace) :
              /\ m.g.trace[n].ev = "lookup_by_id"
              /\ m.g.trace[n].b = replay.map_id
        THEN Goto(m, "l114")
        ELSE IF ~m.handles[m.g.library].open
                  \/ replay.map_id \in m.unknownMaps
        THEN Goto(m1, "raised")
        ELSE Goto(m1, "l114")

\* line 113: bm = library.lookup_by_id(replay.map_id, ...)
L113(m) ==
    LET replay == all_replays(m.check)[m.g.i]
        m1     == Log(m, "lookup_by_id", replay.id, replay.map_id)
    IN  IF ~m.handles[m.g.library].open \/ replay.map_id \in m.unknownMaps
        THEN Goto(m1, "raised")
        ELSE Goto(m1, "l114")

\* line 114: investigator = Investigator(replay, bm, d.ur_thresh)
L114(m) ==
    LET replay == all_replays(m.check)[m.g.i]
        m1     == [m EXCEPT !.g.results = InvestigatorResults(replay),
                            !.g.n = 0]
    IN  Goto(Log(m1, "Investigator", replay.id, 0), "l115")

\* (variant) line 115 draining investigate() without yielding
L115_notYielded(m) == Goto([m EXCEPT !.g.i = @ + 1], "l112")

\* line 115: yield from investigator.investigate(); once investigate() is
\* exhausted the for loop moves on to the next replay
L115(m) ==
    IF m.g.n < Len(m.g.results)
    THEN LET res == m.g.results[m.g.n + 1]
             m1  == Log(m, "yield_relax", res.a, 0)
         IN  Goto([m1 EXCEPT !.g.n = @ + 1, !.g.yielded = res], "y115")
    ELSE Goto([m EXCEPT !.g.i = @ + 1], "l112")

\* (variant) lines 117-119 with the close left out
L117_notClosed(m) == Goto(m, After("l105"))

\* (variant) lines 117-119 closing whichever library the run used
L117_alwaysClosed(m) ==
    Goto(Log([m EXCEPT !.handles[m.g.library].open = FALSE],
             "close", m.g.library, 0), After("l105"))

\* lines 117-119: disconnect from the temporary library
L117(m) ==
    IF m.cg.library = None
    THEN Goto(Log([m EXCEPT !.handles[m.g.library].open = FALSE],
                  "close", m.g.library, 0), After("l105"))
    ELSE Goto(m, After("l105"))

\* line 119 is the last of the body: the generator returns
L119(m) == Goto(m, "done")

\* the statement at the generator's program point
Stmt(m, ok) ==
    CASE m.g.pc = "l95"  -> L95(m, ok)
      [] m.g.pc = "l98"  -> L98(m)
      [] m.g.pc = "l99"  -> L99(m)
      [] m.g.pc = "l102" -> L102(m)
      [] m.g.pc = "l105" -> L105(m)
      [] m.g.pc = "l106" -> L106(m)
      [] m.g.pc = "l112" -> L112(m)
      [] m.g.pc = "l113" -> L113(m)
      [] m.g.pc = "l114" -> L114(m)
      [] m.g.pc = "l115" -> L115(m)
      [] m.g.pc = "l117" -> L117(m)
      [] m.g.pc = "l119" -> L119(m)
      [] OTHER           -> m

RECURSIVE Resume(_, _)
\* the body executes until the next yield, the return or a raise
Resume(m, ok) ==
    IF m.g.pc \in Suspended \cup Terminal THEN m
    ELSE Resume(Stmt(m, ok), ok)

\* (variant) a generator that starts over once it has returned
Continuation_restartable(pc) ==
    CASE pc = "new"  -> "l95"
      [] pc = "y102" -> "l102"
      [] pc = "y115" -> "l115"
      [] pc = "done" -> "l95"
      [] OTHER       -> pc

\* where next() continues a generator that is not executing
Continuation(pc) ==
    CASE pc = "new"  -> "l95"
      [] pc = "y102" -> "l102"
      [] pc = "y115" -> "l115"
      [] OTHER       -> pc

\* what next() hands to the consumer once the body has stopped executing;
\* before is the program point the generator was at when next() was called
\* (a generator that has ended only ever raises StopIteration again)
Delivered(before, g) ==
    IF before \in Terminal THEN StopIteration
    ELSE IF g.pc \in Suspended THEN g.yielded
    ELSE IF g.pc = "raised" THEN Item("error", 0, 0)
    ELSE StopIteration

IsStop(x) == x = StopIteration

\* ------------------------------------------------------------- Init ----
\* set_options has not been called yet
NoOptions(cache) == [v |-> "no call", raised |-> FALSE, before |-> cache]

Init ==
    /\ \E slider_dir \in {None, 1} :
          LET new == CircleguardInit(None, slider_dir, TRUE)
          IN  /\ cg = new.cg
              /\ cacher = new.cacher
              /\ handles = new.handles
    /\ loadCalls = {}
    /\ options = NoOptions(TRUE)
    /\ \E d \in SUBSET Detect, r1 \in SeqUpTo(Maps, MaxReplays),
          r2 \in SeqUpTo(Maps, MaxReplays2) :
          check = [detect |-> d, replays |-> r1, replays2 |-> r2,
                   loaded |-> FALSE]
    /\ unknownMaps \in SUBSET Maps
    /\ gens = [r \in Runs |-> NoGen]
    /\ out = [r \in Runs |-> <<>>]

\* ---------------------------------------------------------- actions ----
\* (variant) run as a plain function that loads before it returns
Run_loadsEagerly(r) ==
    /\ gens[r].pc = "none"
    /\ \A q \in Runs : q < r => gens[q].pc # "none"
    /\ gens' = [gens EXCEPT ![r].pc = "new",
                             ![r].trace = <<Ev("load", 0, 0)>>,
                             ![r].rerun = \E q \in Runs :
                                 gens[q].pc \in Suspended \cup {"done"}]
    /\ check' = [check EXCEPT !.loaded = TRUE]
    /\ UNCHANGED <<cg, cacher, loadCalls, options, unknownMaps, handles, out>>

\* cg.run(check): the call only builds the generator
Run(r) ==
    /\ gens[r].pc = "none"
    /\ \A q \in Runs : q < r => gens[q].pc # "none"
    /\ gens' = [gens EXCEPT ![r].pc = "new",
                             ![r].rerun = \E q \in Runs :
                                 gens[q].pc \in Suspended \cup {"done"}]
    /\ UNCHANGED <<cg, cacher, loadCalls, options, check, unknownMaps,
                   handles, out>>

\* next(gen): one pull by the consumer
Pull(r) ==
    /\ gens[r].pc \in {"new"} \cup Suspended \cup Terminal
    /\ gens[r].pc \in Terminal => Count(out[r], IsStop) < MaxStops
    /\ \E ok \in (IF gens[r].pc = "new" /\ ~check.loaded
                  THEN BOOLEAN ELSE {TRUE}) :
          LET m0 == [r |-> r, cg |-> cg, check |-> check,
                     loadCalls |-> loadCalls,
                     handles |-> handles, unknownMaps |-> unknownMaps,
                     g |-> [gens[r] EXCEPT !.pc = Continuation(@)]]
              m1 == Resume(m0, ok)
          IN  /\ gens' = [gens EXCEPT ![r] = m1.g]
              /\ cg' = m1.cg
              /\ loadCalls' = m1.loadCalls
              /\ check' = m1.check
              /\ handles' = m1.handles
              /\ out' = [out EXCEPT ![r] = Append(@, Delivered(gens[r].pc, m1.g))]
    /\ UNCHANGED <<cacher, options, unknownMaps>>

\* gen.close(), or the consumer dropping its last reference to gen
Close(r) ==
    /\ gens[r].pc \in {"new"} \cup Suspended
    /\ gens' = [gens EXCEPT ![r].pc = "closed"]
    /\ UNCHANGED <<cg, cacher, loadCalls, options, check, unknownMaps,
                   handles, out>>

Next == \E r \in Runs : Run(r) \/ Pull(r) \/ Close(r)

Spec == Init /\ [][Next]_vars

\* ---------------------------------------- load and set_options --------
\* cg.load(loadable), line 134: loadable.load(self.loader, self.cache)
Load ==
    /\ \E ok \in (IF check.loaded THEN {TRUE} ELSE BOOLEAN) :
          check' = CheckLoad(check, ok).check
    /\ loadCalls' = loadCalls \cup {LoadCall("load", cg.loader, Arg(cg.cache))}
    /\ UNCHANGED <<cg, cacher, options, unknownMaps, handles, gens, out>>

\* the values of the cache argument of set_options
OptionValues == {"None", "True", "False"}

\* (variant) set_options that leaves the Cacher alone
SetOptions_flagOnly(v) ==
    /\ options' = [v |-> v, before |-> cg.cache, raised |-> FALSE]
    /\ IF v = "None" THEN UNCHANGED cg
       ELSE cg' = [cg EXCEPT !.cache = (v = "True")]
    /\ UNCHANGED <<cacher, loadCalls, check, unknownMaps, handles, gens, out>>

\* cg.set_options(cache=v), lines 163-169: a None is skipped; otherwise
\* self.cache is assigned and then self.cacher.should_cache, which raises
\* AttributeError when self.cacher is None
SetOptions(v) ==
    /\ options' = [v |-> v, before |-> cg.cache,
                   raised |-> v # "None" /\ cg.cacher = None]
    /\ IF v = "None" THEN UNCHANGED <<cg, cacher>>
       ELSE /\ cg' = [cg EXCEPT !.cache = (v = "True")]
            /\ IF cg.cacher = None THEN UNCHANGED cacher
               ELSE cacher' =
                        [cacher EXCEPT ![cg.cacher].should_cache = (v = "True")]
    /\ UNCHANGED <<loadCalls, check, unknownMaps, handles, gens, out>>

\* every construction of the instance, and a Check with one replay set
InitInstance ==
    /\ \E db_path \in {None, 1}, slider_dir \in {None, 1}, cache \in BOOLEAN :
          LET new == CircleguardInit(db_path, slider_dir, cache)
          IN  /\ cg = new.cg
              /\ cacher = new.cacher
              /\ handles = new.handles
              /\ options = NoOptions(cache)
    /\ loadCalls = {}
    /\ \E d \in SUBSET Detect, r1 \in SeqUpTo(Maps, MaxReplays) :
          check = [detect |-> d, replays |-> r1, replays2 |-> <<>>,
                   loaded |-> FALSE]
    /\ unknownMaps \in SUBSET Maps
    /\ gens = [r \in Runs |-> NoGen]
    /\ out = [r \in Runs |-> <<>>]

\* one run, interleaved with calls of load and set_options
NextInstance ==
    \/ \E v \in OptionValues : SetOptions(v)
    \/ Load
    \/ \E r \in {1} : Run(r) \/ Pull(r) \/ Close(r)

SpecInstance == InitInstance /\ [][NextInstance]_vars

\* ------------------------------------------------- reading the state ---
IsResult(x)     == x.kind \in {"steal", "relax"}
IsStealItem(x)  == x.kind = "steal"
IsRelaxItem(x)  == x.kind = "relax"
IsError(x)      == x.kind = "error"
IsLoad(e)       == e.ev = "load"
IsLookup(e)     == e.ev = "lookup_by_id"
IsYieldSteal(e) == e.ev = "yield_steal"

\* the work of the detectors, as opposed to loading and to closing a handle
StealWork  == {"Comparer", "compare"}
RelaxWork  == {"Library", "lookup_by_id", "Investigator"}
IsDetectorWork(e) == e.ev \in StealWork \cup RelaxWork
IsComputation(e)  == e.ev \in {"load", "compare", "lookup_by_id", "Investigator"}

\* the handles a run opened itself
HandlesOf(r) == {h \in 1..Len(handles) : handles[h].owner = r}

\* the load of run r was requested and failed
LoadFailed(r) ==
    \E n \in 1..Len(gens[r].trace) :
        gens[r].trace[n].ev = "load" /\ gens[r].trace[n].a = 1

\* the stream of run r has ended by exhaustion or by a propagated failure
Ended(r) == gens[r].pc \in {"done", "raised"}

\* the replays of the first set a relax result was received for
RelaxIds(r) == {out[r][n].a : n \in {k \in 1..Len(out[r]) : IsRelaxItem(out[r][k])}}

\* the replays of the first set whose beatmap cannot be obtained
UnknownReplays == {k \in 1..Len(check.replays) : check.replays[k] \in unknownMaps}

\* every replay the Check references, in either replay set
AllReplayIds == 1..(Len(check.replays) + Len(check.replays2))

\* ---------------------------------------------------------------- C1 ---
\* C1: once a run has been drained or abandoned (its generator closed), no
\* Library handle that the run opened is still open.
C1_HandleReleased ==
    \A r \in Runs :
        gens[r].pc \in {"done", "closed"}
            => \A h \in HandlesOf(r) : ~handles[h].open

C3_StealBeforeRelax ==
    \A r \in Runs :
        \A a, b \in 1..Len(out[r]) :
            (a < b /\ IsRelaxItem(out[r][a])) => ~IsStealItem(out[r][b])

\* a stream that delivered steal results and relax results
C3_Witness ==
    \E r \in Runs :
        /\ gens[r].pc = "done"
        /\ Count(out[r], IsStealItem) >= 2
        /\ Count(out[r], IsRelaxItem) >= 2

\* ---------------------------------------------------------------- C4 ---
\* the position in the log of run r of the relax detector's first action
\* (0 when it has not acted)
FirstRelaxAction(r) ==
    LET t == gens[r].trace
        S == {n \in 1..Len(t) : t[n].ev \in RelaxWork}
    IN  IF S = {} THEN 0 ELSE CHOOSE n \in S : \A k \in S : n <= k

\* the steal results yielded before position n of the log of run r
StealYieldsBefore(r, n) ==
    Cardinality({k \in 1..(n - 1) : IsYieldSteal(gens[r].trace[k])})

\* C4 as stated: when steal and relax are both enabled, at least one steal
\* result was yielded before the relax detector's first action.
C4_OneStealBeforeRelax ==
    \A r \in Runs :
        ({STEAL, RELAX} \subseteq check.detect /\ FirstRelaxAction(r) > 0)
            => StealYieldsBefore(r, FirstRelaxAction(r)) >= 1

\* C4 amended: when steal and relax are both enabled, every steal result
\* of the run (one per pair the Comparer compares) was yielded before the
\* relax detector's first action; that is at least one result exactly when
\* the Comparer has a pair to compare.
C4_AllStealBeforeRelax ==
    \A r \in Runs :
        ({STEAL, RELAX} \subseteq check.detect /\ FirstRelaxAction(r) > 0)
            => StealYieldsBefore(r, FirstRelaxAction(r))
                 = Len(ComparerPairs(all_replays(check), all_replays2(check)))

\* the relax detector has acted in a run whose Comparer had pairs
C4_Witness ==
    \E r \in Runs :
        /\ {STEAL, RELAX} \subseteq check.detect
        /\ FirstRelaxAction(r) > 0
        /\ StealYieldsBefore(r, FirstRelaxAction(r)) >= 2

\* ---------------------------------------------------------------- C5 ---
\* the failure signals run r gave for replay id: a failed load concerns
\* every replay, a failed lookup the replay that was being looked up
FailureSignals(r, id) ==
    IF gens[r].pc # "raised" THEN 0
    ELSE IF LoadFailed(r) THEN 1
    ELSE IF gens[r].i = id THEN 1 ELSE 0

\* the relax results run r yielded for replay id
RelaxResults(r, id) ==
    Cardinality({n \in 1..Len(out[r]) :
                    IsRelaxItem(out[r][n]) /\ out[r][n].a = id})

\* C5: once the stream of a relax run has ended, every replay the Check
\* references, in either replay set, has exactly one relax result or
\* exactly one failure signal.
C5_NoReplayDropped ==
    \A r \in Runs :
        (Ended(r) /\ RELAX \in check.detect)
            => \A id \in AllReplayIds :
                   RelaxResults(r, id) + FailureSignals(r, id) = 1

C7_LoadFirst ==
    \A r \in Runs :
        LET t == gens[r].trace
        IN  /\ Count(t, IsLoad) <= 1
            /\ t # <<>> => IsLoad(t[1])
            /\ gens[r].pc \in Suspended \cup {"done", "raised"}
                   => Count(t, IsLoad) = 1
            /\ LoadFailed(r)
                   => /\ gens[r].pc = "raised"
                      /\ Len(t) = 1
                      /\ HandlesOf(r) = {}
                      /\ Count(out[r], IsResult) = 0
                      /\ Count(out[r], IsError) = 1

\* a run of a Check with work to do failed at its load
C7_Witness ==
    \E r \in Runs :
        /\ LoadFailed(r)
        /\ check.detect = {STEAL, RELAX}
        /\ Len(check.replays) >= 2

\* ---------------------------------------------------------------- C8 ---
\* C8: a run whose stream has never been pulled has done nothing (no load,
\* comparison, library handle or lookup), and the number of beatmap lookups
\* a run has made is at most one more than the number of replays whose
\* relax result its consumer has received.
C8_PullDriven ==
    \A r \in Runs :
        /\ out[r] = <<>> => gens[r].trace = <<>> /\ HandlesOf(r) = {}
        /\ Count(gens[r].trace, IsLookup) <= 1 + Cardinality(RelaxIds(r))

\* a run was created and left unpulled while another run got a relax result
C8_Witness ==
    \E q, r \in Runs :
        /\ gens[r].pc = "new" /\ out[r] = <<>>
        /\ gens[q].pc = "y115"
        /\ Count(gens[q].trace, IsLookup) >= 2

\* ---------------------------------------------------------------- C9 ---
\* C9: a step in which the consumer of a run does not pull does no work on
\* behalf of that run: its log of loads, comparisons, lookups and
\* Investigator constructions stays as it is, however long the consumer
\* stays away.
C9_NoPullNoWork ==
    [][\A r \in Runs :
          Len(out'[r]) = Len(out[r])
              => Count(gens'[r].trace, IsComputation)
                     = Count(gens[r].trace, IsComputation)]_vars

\* a stream abandoned with work remaining, while another run went on
C9_Witness ==
    \E q, r \in Runs :
        /\ gens[r].pc = "closed"
        /\ Count(out[r], IsResult) = 1
        /\ Count(out[r], IsStop) = 0
        /\ gens[q].pc = "done"
        /\ Count(out[q], IsResult) >= 3

\* --------------------------------------------------------------- C10 ---
\* the detector of strategy s was invoked in run r over the loaded replays
Invoked(r, s) ==
    LET t == gens[r].trace
    IN  CASE s = STEAL -> \E n \in 1..Len(t) : t[n].ev = "Comparer"
          [] s = RELAX -> \A k \in 1..Len(check.replays) :
                              \E n \in 1..Len(t) :
                                  t[n].ev = "Investigator" /\ t[n].a = k
          [] s = CORRECTION -> \E n \in 1..Len(t) : t[n].ev = "Corrector"

\* C10: a run that reached Drained has invoked the detector of every
\* strategy its Check enables, among steal, relax and correction.
C10_EveryEnabledDetectorInvoked ==
    \A r \in Runs :
        gens[r].pc = "done" => \A s \in check.detect : Invoked(r, s)

\* --------------------------------------------------------------- C11 ---
\* run r has been pulled and its load did not fail
Started(r) == out[r] # <<>> /\ gens[r].trace # <<>> /\ ~LoadFailed(r)

\* C11: a Check with no enabled detector over a non-empty replay set is
\* valid.  A run of it whose load succeeded is Drained by its first pull:
\* the consumer receives StopIteration and nothing else, no result, no
\* error, and the run constructed no detector and opened no handle.
C11_NoDetectorsDrained ==
    \A r \in Runs :
        (check.detect = {} /\ check.replays # <<>> /\ Started(r))
            => /\ gens[r].pc = "done"
               /\ \A n \in 1..Len(out[r]) : IsStop(out[r][n])
               /\ Count(gens[r].trace, IsDetectorWork) = 0
               /\ HandlesOf(r) = {}

\* a drained run of a Check with two replays and no detector
C11_Witness ==
    \E r \in Runs :
        /\ check.detect = {} /\ Len(check.replays) = 2
        /\ Started(r) /\ gens[r].pc = "done"

\* --------------------------------------------------------------- C12 ---
IsRelaxWork(e) == e.ev \in RelaxWork

\* C12: a run of a Check that does not enable relax opens no Library
\* handle and makes no lookup; a run of a Check that enables relax opens
\* at most one handle, however many replays there are.
C12_HandleOnlyIfNeeded ==
    \A r \in Runs :
        /\ RELAX \notin check.detect
               => /\ HandlesOf(r) = {}
                  /\ gens[r].library = None
                  /\ Count(gens[r].trace, IsRelaxWork) = 0
        /\ Cardinality(HandlesOf(r)) <= 1

\* a drained relax run over two replays that opened one handle
C12_Witness ==
    \E r \in Runs :
        /\ RELAX \in check.detect /\ gens[r].pc = "done"
        /\ Cardinality(HandlesOf(r)) = 1
        /\ Count(gens[r].trace, IsLookup) = 2

\* --------------------------------------------------------------- C13 ---
\* the lookups run r made for map id mp
LookupsOfMap(r, mp) ==
    Cardinality({n \in 1..Len(gens[r].trace) :
                    IsLookup(gens[r].trace[n]) /\ gens[r].trace[n].b = mp})

\* the lookups run r made for replay id
LookupsOfReplay(r, id) ==
    Cardinality({n \in 1..Len(gens[r].trace) :
                    IsLookup(gens[r].trace[n]) /\ gens[r].trace[n].a = id})

\* C13 as stated: within one run the library is asked for a map id at
\* most once, however many replays are on that map.
C13_OneLookupPerMap ==
    \A r \in Runs : \A mp \in Maps : LookupsOfMap(r, mp) <= 1

\* C13 amended: within one run the library is asked once per replay, not
\* once per map id: every replay the run has an Investigator for was looked
\* up exactly once, under its own map id, so two replays on the same map
\* make two lookups of that map id.
C13_OneLookupPerReplay ==
    \A r \in Runs :
        \A n \in 1..Len(gens[r].trace) :
            gens[r].trace[n].ev = "Investigator"
                => LET id == gens[r].trace[n].a
                   IN  /\ LookupsOfReplay(r, id) = 1
                       /\ \E k \in 1..(n - 1) :
                              gens[r].trace[k] =
                                  Ev("lookup_by_id", id, check.replays[id])

\* a drained run over two replays on the same map
C13_Witness ==
    \E r \in Runs :
        /\ gens[r].pc = "done"
        /\ Len(check.replays) = 2 /\ check.replays[1] = check.replays[2]
        /\ LookupsOfMap(r, check.replays[1]) = 2

\* --------------------------------------------------------------- C14 ---
\* C14: a relax run over no replays, once its load has succeeded, is
\* Drained by its first pull: no result, no error, and every handle the
\* run opened has been closed.
C14_RelaxNoReplays ==
    \A r \in Runs :
        (RELAX \in check.detect /\ check.replays = <<>> /\ Started(r))
            => /\ gens[r].pc = "done"
               /\ \A n \in 1..Len(out[r]) : IsStop(out[r][n])
               /\ \A h \in HandlesOf(r) : ~handles[h].open

\* a drained relax run over no replays that had opened a handle
C14_Witness ==
    \E r \in Runs :
        /\ RELAX \in check.detect /\ check.replays = <<>>
        /\ gens[r].pc = "done" /\ HandlesOf(r) # {}

\* --------------------------------------------------------------- C18 ---
\* the handles run r has closed
ClosedBy(r) ==
    {gens[r].trace[n].a :
        n \in {k \in 1..Len(gens[r].trace) : gens[r].trace[k].ev = "close"}}

\* C18: under every interleaving of the runs on one instance, a run that
\* is inside its relax loop holds an open handle (so no lookup is made on
\* a closed one); a run closes no handle but the one it opened, and a
\* handle opened by a run is closed by that run only; the instance's own
\* library, when it has one, is never closed.
C18_HandleOwnership ==
    /\ \A r \in Runs :
          /\ gens[r].pc = "y115" => handles[gens[r].library].open
          /\ ClosedBy(r) \subseteq HandlesOf(r)
          /\ \A h \in HandlesOf(r) : ~handles[h].open => h \in ClosedBy(r)
    /\ cg.library # None => handles[cg.library].open

\* one run was drained while another was inside its relax loop
C18_Witness ==
    \E q, r \in Runs :
        /\ q # r
        /\ gens[q].pc = "done" /\ Count(gens[q].trace, IsLookup) >= 1
        /\ gens[r].pc = "y115"

\* --------------------------------------------------------------- C15 ---
\* C15: every call Circleguard.load makes of the loadable's load method
\* has the arguments of the call run makes at line 95: the instance's
\* loader and nothing else.
C15_LoadSameArguments ==
    \A c \in loadCalls :
        c.via = "load" => c.loader = cg.loader /\ c.cache = Absent

\* --------------------------------------------------------------- C16 ---
\* C16: after set_options(cache=v) with v a bool the instance's cache flag
\* is v and so is should_cache of its Cacher, when it has one; after
\* set_options() with cache None the flag is what it was; and at all times
\* the Cacher of an instance that has one caches iff the flag is set.
C16_CacheOption ==
    /\ options.v \in {"True", "False"}
           => /\ cg.cache = (options.v = "True")
              /\ cg.cacher # None
                     => cacher[cg.cacher].should_cache = (options.v = "True")
    /\ options.v = "None" => cg.cache = options.before
    /\ cg.cacher # None => cacher[cg.cacher].should_cache = cg.cache

\* set_options(cache=False) was called on a caching instance with a Cacher
C16_Witness ==
    /\ options.v = "False" /\ options.before
    /\ cg.cacher # None

\* --------------------------------------------------------------- C17 ---
\* C17: a call of set_options that failed has left the instance's cache
\* flag as it was before the call.
C17_AllOrNothing == options.raised => cg.cache = options.before

\* --------------------------------------------------------------- C19 ---
\* C19: every step of a run (the call of run, a pull, a close) leaves the
\* instance as it was: its loader, cacher, cache flag, library and
\* slider_dir, its Cacher, the library handle the instance owns and what
\* set_options last did; of the Check it changes the loaded flag at most.
C19_RunLeavesInstance ==
    [][(gens' # gens \/ out' # out)
          => /\ cg' = cg
             /\ cacher' = cacher
             /\ options' = options
             /\ unknownMaps' = unknownMaps
             /\ \A h \in 1..Len(handles) :
                    handles[h].owner = 0 => handles'[h] = handles[h]
             /\ check' = [check EXCEPT !.loaded = check'.loaded]]_vars

\* a relax run on an instance with a Cacher opened a handle of its own
\* and was drained, around a call of set_options
C19_Witness ==
    /\ gens[1].pc = "done" /\ HandlesOf(1) # {}
    /\ Count(out[1], IsRelaxItem) = 2
    /\ cg.cacher # None
    /\ options.v = "False"

=============================================================================
